---- MODULE Spec2Model ----
(***************************************************************************)
(* Model of the client-side orchestration of the AI Log Platform frontend: *)
(*   - LogUploader (src/frontend/src/components/LogUploader.jsx): upload   *)
(*     of a log file and the 2-second poll loop on the ingestion job;      *)
(*   - AskAI (src/frontend/src/components/AskAI.jsx): the streamed         *)
(*     analysis query;                                                     *)
(*   - App (src/frontend/src/App.jsx) with LogTable                        *)
(*     (src/frontend/src/components/LogTable.jsx): filters, pagination,    *)
(*     the log fetches and the 30-second refresh.                          *)
(* Each specification below follows one of the three from its state after  *)
(* mounting and leaves the other two as they are; SpecTabs follows the     *)
(* LogUploader and, once it is unmounted, one question of AskAI.           *)
(* React state is modelled by one variable per useState/useRef cell.  A    *)
(* handler and the effect re-run its state changes cause are one action.   *)
(* Requests in flight are explicit, so that a response may be delivered    *)
(* after the component state it was issued from has been replaced.         *)
(***************************************************************************)
EXTENDS Bags, FiniteSets, Integers, Sequences, TLC

(* ---------------------------- bounds ----------------------------------- *)
MaxJobs == 1
MaxUploads == 2
MaxInFlight == 2
MaxTimers == 2

(* ----------------------- values of the program ------------------------- *)
NoJob == 0
NoFile == 0
NoTimer == 0
TheFile == 1
FullProgress == 100
HalfProgress == 50

TimerIds == 1..MaxTimers
Counts == {0, 10, 42}
Percents == {HalfProgress}
Errors == {"", "disk full"}
UploadErrors == {"Network Error"}

VARIABLES
    mounted,        \* the LogUploader instance is mounted
    file,           \* useState(null)
    status,         \* useState("Queued")
    progress,       \* useState(0)
    jobId,          \* useState(null)
    displayText,    \* useState("")
    intervalRef,    \* useRef(null): intervalRef.current
    armed,          \* the intervals set and not yet cleared: {[id, job]}
    uploads,        \* uploadLog requests in flight (a bag)
    polls,          \* getJob requests in flight (a bag)
    jobs,           \* the backend's job records, by job id
    completeCalls,  \* how often onComplete was invoked from a poll of job j
    failEmits,      \* how often the failure of job j was put on display
    lastBranch      \* the branch the poll callback took last (lines 23-36)

upVars == <<mounted, file, status, progress, jobId, displayText,
            intervalRef, armed, uploads, polls, jobs, completeCalls,
            failEmits, lastBranch>>

(* ----------------------------- texts ----------------------------------- *)
\* A display text is kept as the template that built it and its arguments.
Txt(t, n, s) == [t |-> t, n |-> n, s |-> s]
EmptyText == Txt("", 0, "")
ProcessingText == Txt("Processing...", 0, "")

\* job.processed_count || 0
OrZero(n) == IF n = 0 THEN 0 ELSE n

\* job.error || "Unknown error"
OrUnknown(e) == IF e = "" THEN "Unknown error" ELSE e

\* `Done! ${job.processed_count || 0} logs processed.`
DoneText(job) == Txt("Done! ${n} logs processed.", OrZero(job.processed_count), "")

\* The error text without the default.
ErrorTextNoDefault(job) == Txt("Error: ${s}", 0, job.error)

\* `Error: ${job.error || "Unknown error"}`
ErrorText(job) == Txt("Error: ${s}", 0, OrUnknown(job.error))

\* `Upload failed: ${error.message}`
UploadFailedText(msg) == Txt("Upload failed: ${s}", 0, msg)

(* --------------------------- requests ---------------------------------- *)
NetErr == [status |-> "neterr", processed_count |-> 0, error |-> ""]
Poll(j) == [job |-> j]
TheUpload == [file |-> TheFile]

\* The state setters of a closure take effect while its instance is
\* mounted; React drops the updates of an unmounted component, and the
\* cleanup has cleared the interval its ref holds.
Live == mounted

(* ------------------------- the poll effect ----------------------------- *)
\* The cleanup left out: the interval of the previous run stays armed.
NoCleanup(a, ref) == a

\* LogUploader.jsx 40-42: the cleanup clears intervalRef.current.
EffectCleanup(a, ref) == {t \in a : t.id # ref}

\* setInterval returns a handle it has not handed out before.  Handles that
\* nothing holds any more are dead, so the least handle that is neither
\* armed nor held by the ref stands for the new one.
FreeIds(a, ref) == {i \in TimerIds : i # ref /\ i \notin {t.id : t \in a}}
FreeId(a, ref) == CHOOSE i \in FreeIds(a, ref) : \A k \in FreeIds(a, ref) : i <= k

\* The effect that sets an interval whenever there is a job.
EffectArmsAnyStatus(st, jid) == jid # NoJob

\* LogUploader.jsx 19-38: the effect sets an interval when processing.
EffectArms(st, jid) == st = "Processing" /\ jid # NoJob

\* The effect re-run (cleanup of the previous run, then the effect body),
\* for the state st, jid the render committed.
RunEffect(st, jid) ==
    LET a1 == EffectCleanup(armed, intervalRef) IN
    IF EffectArms(st, jid)
    THEN /\ FreeIds(a1, intervalRef) # {}
         /\ armed' = a1 \cup {[id |-> FreeId(a1, intervalRef), job |-> jid]}
         /\ intervalRef' = FreeId(a1, intervalRef)
    ELSE /\ armed' = a1
         /\ intervalRef' = intervalRef

\* clearInterval(intervalRef.current) of lines 27 and 32, then the effect
\* re-run when status changed.
ClearThenEffect(st, jid) ==
    LET a0 == {t \in armed : t.id # intervalRef}
        a1 == IF st # status THEN EffectCleanup(a0, intervalRef) ELSE a0 IN
    /\ armed' = a1
    /\ intervalRef' = intervalRef

(* ------------------------------ Init ----------------------------------- *)
UpInit ==
    /\ mounted = TRUE
    /\ file = NoFile
    /\ status = "Queued"
    /\ progress = 0
    /\ jobId = NoJob
    /\ displayText = EmptyText
    /\ intervalRef = NoTimer
    /\ armed = {}
    /\ uploads = EmptyBag
    /\ polls = EmptyBag
    /\ jobs = <<>>
    /\ completeCalls = <<>>
    /\ failEmits = <<>>
    /\ lastBranch = ""

(* ---------------------------- user actions ----------------------------- *)
\* The reset of lines 47-52 and 59-64, and the effect re-run it causes.
ResetForFile(f) ==
    /\ file' = f
    /\ status' = "Queued"
    /\ progress' = 0
    /\ jobId' = NoJob
    /\ displayText' = EmptyText
    /\ RunEffect("Queued", NoJob)

\* The file input is disabled while Uploading or Processing (line 106).
handleFileSelect ==
    /\ mounted
    /\ status \notin {"Uploading", "Processing"}
    /\ ResetForFile(TheFile)
    /\ UNCHANGED <<mounted, uploads, polls, jobs, completeCalls, failEmits, lastBranch>>

\* The drop zone has no disabled state (lines 94-97).
handleDrop ==
    /\ mounted
    /\ ResetForFile(TheFile)
    /\ UNCHANGED <<mounted, uploads, polls, jobs, completeCalls, failEmits, lastBranch>>

\* handleUpload up to its await (lines 72-80); the button is disabled
\* unless a file is chosen and status is Queued (line 147).
handleUpload ==
    /\ mounted
    /\ file # NoFile
    /\ status = "Queued"
    /\ BagCardinality(uploads) < MaxUploads
    /\ status' = "Uploading"
    /\ progress' = 0
    /\ jobId' = NoJob
    /\ displayText' = EmptyText
    /\ RunEffect("Uploading", NoJob)
    /\ uploads' = uploads (+) SetToBag({TheUpload})
    /\ UNCHANGED <<mounted, file, polls, jobs, completeCalls, failEmits, lastBranch>>

\* The progress callback handed to uploadLog (lines 80-82).
UploadProgress(u, pc) ==
    /\ BagIn(u, uploads)
    /\ Live
    /\ progress # pc
    /\ progress' = pc
    /\ UNCHANGED <<mounted, file, status, jobId, displayText, intervalRef,
                   armed, uploads, polls, jobs, completeCalls, failEmits, lastBranch>>

(* ------------------------ upload completions --------------------------- *)
NewJob == [status |-> "queued", processed_count |-> 0, error |-> ""]

\* uploadLog resolved (lines 83-85): the backend has made job Len(jobs)+1.
UploadResolve(u) ==
    LET j == Len(jobs) + 1 IN
    /\ BagIn(u, uploads)
    /\ Len(jobs) < MaxJobs
    /\ uploads' = uploads (-) SetToBag({u})
    /\ jobs' = Append(jobs, NewJob)
    /\ completeCalls' = Append(completeCalls, 0)
    /\ failEmits' = Append(failEmits, 0)
    /\ IF Live
       THEN /\ jobId' = j
            /\ status' = "Processing"
            /\ displayText' = ProcessingText
            /\ RunEffect("Processing", j)
       ELSE UNCHANGED <<jobId, status, displayText, armed, intervalRef>>
    /\ UNCHANGED <<mounted, file, progress, polls, lastBranch>>

\* uploadLog rejected (lines 86-89).
UploadReject(u, msg) ==
    /\ BagIn(u, uploads)
    /\ uploads' = uploads (-) SetToBag({u})
    /\ IF Live
       THEN /\ status' = "Failed"
            /\ displayText' = UploadFailedText(msg)
            /\ RunEffect("Failed", jobId)
       ELSE UNCHANGED <<status, displayText, armed, intervalRef>>
    /\ UNCHANGED <<mounted, file, progress, jobId, polls, jobs,
                   completeCalls, failEmits, lastBranch>>

(* ----------------------------- backend --------------------------------- *)
\* The ingestion job moves queued -> processing -> {completed | failed};
\* processed_count only grows; completed and failed are final.
ServerStep(j) ==
    /\ j \in DOMAIN jobs
    /\ \/ /\ jobs[j].status = "queued"
          /\ jobs' = [jobs EXCEPT ![j].status = "processing"]
       \/ /\ jobs[j].status = "processing"
          /\ \E c \in Counts :
                /\ c > jobs[j].processed_count
                /\ \A d \in Counts : d > jobs[j].processed_count => c <= d
                /\ jobs' = [jobs EXCEPT ![j].processed_count = c]
       \/ /\ jobs[j].status = "processing"
          /\ jobs' = [jobs EXCEPT ![j].status = "completed"]
       \/ /\ jobs[j].status = "processing"
          /\ \E e \in Errors :
                jobs' = [jobs EXCEPT ![j].status = "failed", ![j].error = e]
    /\ UNCHANGED <<mounted, file, status, progress, jobId, displayText,
                   intervalRef, armed, uploads, polls, completeCalls, failEmits, lastBranch>>

(* ---------------------------- the poll loop ---------------------------- *)
\* A tick of an armed interval: the callback calls getJob(jobId) with the
\* jobId of the render that set the interval (line 22).
Tick(t) ==
    /\ t \in armed
    /\ BagCardinality(polls) < MaxInFlight
    /\ polls' = polls (+) SetToBag({Poll(t.job)})
    /\ UNCHANGED <<mounted, file, status, progress, jobId, displayText,
                   intervalRef, armed, uploads, jobs, completeCalls, failEmits, lastBranch>>

\* The callback with a catch that gives up: a transport error ends the job
\* as failed and clears the interval.
PollOutcomeCatchFails(r) ==
    IF r = NetErr
    THEN [branch |-> "catch", sets |-> TRUE, status |-> "Failed",
          progress |-> progress, text |-> ErrorText(r), clears |-> TRUE,
          notifies |-> FALSE]
    ELSE [branch |-> "none", sets |-> FALSE, status |-> "", progress |-> 0,
          text |-> EmptyText, clears |-> FALSE, notifies |-> FALSE]

\* What the callback does with the outcome r of its getJob (lines 21-36):
\* the branch taken, the state it sets, whether it clears the interval and
\* whether it calls onComplete.
PollOutcome(r) ==
    IF r = NetErr
    THEN [branch |-> "catch", sets |-> FALSE, status |-> "", progress |-> 0,
          text |-> EmptyText, clears |-> FALSE, notifies |-> FALSE]
    ELSE IF r.status = "completed"
    THEN [branch |-> "completed", sets |-> TRUE, status |-> "Completed",
          progress |-> FullProgress, text |-> DoneText(r), clears |-> TRUE,
          notifies |-> TRUE]
    ELSE IF r.status = "failed"
    THEN [branch |-> "failed", sets |-> TRUE, status |-> "Failed",
          progress |-> progress, text |-> ErrorText(r), clears |-> TRUE,
          notifies |-> FALSE]
    ELSE [branch |-> "none", sets |-> FALSE, status |-> "", progress |-> 0,
          text |-> EmptyText, clears |-> FALSE, notifies |-> FALSE]

\* What getJob(j) can settle with: the job record as the backend has it, or
\* a transport error.  (An older record differs from the present one only
\* in answers that are not final, on which the callback does nothing.)
Responses(j) == {NetErr, jobs[j]}

\* The getJob promise settles and the rest of the interval callback runs.
DeliverPoll(p, r) ==
    LET o == PollOutcome(r)
        live == Live IN
    /\ BagIn(p, polls)
    /\ r \in Responses(p.job)
    /\ polls' = polls (-) SetToBag({p})
    /\ IF o.sets /\ live
       THEN /\ status' = o.status
            /\ progress' = o.progress
            /\ displayText' = o.text
       ELSE UNCHANGED <<status, progress, displayText>>
    /\ IF o.clears /\ live
       THEN ClearThenEffect(IF o.sets THEN o.status ELSE status, jobId)
       ELSE UNCHANGED <<armed, intervalRef>>
    /\ completeCalls' = IF o.notifies
                        THEN [completeCalls EXCEPT ![p.job] = @ + 1]
                        ELSE completeCalls
    /\ failEmits' = IF o.branch = "failed" /\ live /\
                       (status # "Failed" \/ displayText # o.text)
                    THEN [failEmits EXCEPT ![p.job] = @ + 1]
                    ELSE failEmits
    /\ lastBranch' = o.branch
    /\ UNCHANGED <<mounted, file, jobId, uploads, jobs>>

(* ------------------------- mounting and parent ------------------------- *)
\* App re-renders and hands down a new onComplete function (App.jsx 78-81,
\* 150): the dependency changed, so the effect re-runs.
ParentRender ==
    /\ mounted
    /\ RunEffect(status, jobId)
    /\ UNCHANGED <<mounted, file, status, progress, jobId, displayText,
                   uploads, polls, jobs, completeCalls, failEmits, lastBranch>>

\* The Logs tab is left (App.jsx 148-160): the cleanup runs and the state
\* of the instance is discarded.
Unmount ==
    /\ mounted
    /\ mounted' = FALSE
    /\ armed' = EffectCleanup(armed, intervalRef)
    /\ intervalRef' = NoTimer
    /\ file' = NoFile
    /\ status' = "Queued"
    /\ progress' = 0
    /\ jobId' = NoJob
    /\ displayText' = EmptyText
    /\ UNCHANGED <<uploads, polls, jobs, completeCalls, failEmits, lastBranch>>

(* ============================== AskAI ================================== *)
(* A text is a sequence of pieces; '' is the empty sequence.  A text that   *)
(* JSON.parse accepts is kept as the value it encodes.                      *)
MaxStreams == 2
MaxEvents == 3

Queries == {"", " ", "why"}
Script == <<"Analy", "zing ", "payment-svc">>

\* The k-th token chunk the analysis service sends.
TokenAt(k) == <<Script[((k - 1) % Len(Script)) + 1]>>

NoObj == [cause |-> "", confidence |-> "", error |-> ""]
TheResult == [cause |-> "DB timeout", confidence |-> "HIGH", error |-> ""]
ErrResult == [cause |-> "", confidence |-> "", error |-> "model unavailable"]

Plain(s) == [tag |-> "plain", s |-> s, o |-> NoObj]
JsonOfObj(o) == [tag |-> "json", s |-> <<>>, o |-> o]
JsonOfStr(s) == [tag |-> "jsonstr", s |-> s, o |-> NoObj]
ErrorMsg(e) == [tag |-> "error", s |-> <<e>>, o |-> NoObj]
EmptyStr == Plain(<<>>)

\* What the final callback can be handed: an object, or a string.
ObjPayload(o) == [type |-> "object", o |-> o, text |-> EmptyStr]
StrPayload(t) == [type |-> "string", o |-> NoObj, text |-> t]
Payloads == {ObjPayload(TheResult), ObjPayload(ErrResult),
             StrPayload(Plain(<<"plain summary">>)), StrPayload(EmptyStr),
             StrPayload(JsonOfObj(TheResult))}

VARIABLES
    query,          \* useState('')
    response,       \* useState('')
    isStreaming,    \* useState(false)
    streams,        \* the askAI calls made: the tokenBuffer of each closure
                    \* (buf), the chunks the channel has delivered to it
                    \* (rcv), the terminal callbacks it has run (term),
                    \* whether Clear was pressed while it was open (cut)
                    \* and whether its promise has rejected (failed)
    askMounted      \* the AskAI instance is mounted

askVars == <<query, response, isStreaming, streams, askMounted>>

\* query.trim()
Trim(q) == IF q = " " THEN "" ELSE q

\* tokenBuffer.join('')
RECURSIVE Join(_)
Join(buf) == IF buf = <<>> THEN <<>> ELSE Head(buf) \o Join(Tail(buf))

\* JSON.stringify(result, null, 2) of an object
Stringify(o) == JsonOfObj(o)

\* AskAI.jsx 51-58: parseResponse.  null is [ok |-> FALSE].
parseResponse(text) ==
    IF text = EmptyStr THEN [ok |-> FALSE, o |-> NoObj]
    ELSE IF text.tag = "json" THEN [ok |-> TRUE, o |-> text.o]
    ELSE [ok |-> FALSE, o |-> NoObj]

\* The token callback that shows the last token only.
TokenTextLastOnly(buf, token) == Plain(token)

\* AskAI.jsx 25-28: the text the token callback sets, for the buffer before
\* the push and the token.
TokenText(buf, token) == Plain(Join(Append(buf, token)))

\* The final callback without its typeof test: every result is stringified.
FinalTextStringifyAll(result) ==
    IF result.type = "object" /\ result.o.error # ""
    THEN ErrorMsg(result.o.error)
    ELSE IF result.type = "object" THEN Stringify(result.o)
    ELSE JsonOfStr(result.text.s)

\* AskAI.jsx 31-40: the text the final callback sets (result.error of a
\* string is undefined).
FinalText(result) ==
    IF result.type = "object" /\ result.o.error # ""
    THEN ErrorMsg(result.o.error)
    ELSE IF result.type = "object" THEN Stringify(result.o)
    ELSE result.text

NewStream == [buf |-> <<>>, rcv |-> <<>>, term |-> 0, cut |-> FALSE,
              failed |-> FALSE]

\* The state setters of a closure of AskAI take effect while its instance
\* is mounted.
AskLive == askMounted

AskInit ==
    /\ query = ""
    /\ response = EmptyStr
    /\ isStreaming = FALSE
    /\ streams = <<>>
    /\ askMounted = TRUE

\* The textarea (lines 68-75), disabled while streaming.
SetQuery(q) ==
    /\ askMounted
    /\ ~isStreaming
    /\ q # query
    /\ query' = q
    /\ UNCHANGED <<response, isStreaming, streams, askMounted>>

\* handleAsk up to its await (lines 14-22); the button is disabled while
\* the query is blank or a stream is running (line 80).
handleAsk ==
    /\ askMounted
    /\ Trim(query) # ""
    /\ ~isStreaming
    /\ Len(streams) < MaxStreams
    /\ isStreaming' = TRUE
    /\ response' = EmptyStr
    /\ streams' = Append(streams, NewStream)
    /\ UNCHANGED <<query, askMounted>>

\* The calls whose channel is open: no terminal callback has run and the
\* promise has not rejected.
OpenStreams == {i \in DOMAIN streams : streams[i].term = 0 /\ ~streams[i].failed}

\* handleClear (lines 45-48); the Clear button is never disabled.  It
\* holds no handle of the call in progress: cut only records that Clear
\* was pressed while the call was open.
handleClear ==
    /\ askMounted
    /\ query' = ""
    /\ response' = EmptyStr
    /\ streams' = [i \in DOMAIN streams |->
                      IF i \in OpenStreams
                      THEN [streams[i] EXCEPT !.cut = TRUE]
                      ELSE streams[i]]
    /\ UNCHANGED <<isStreaming, askMounted>>

\* What askAI may still deliver to the callbacks of call i: the channel
\* hands over the events as they arrive, a late or a repeated one too,
\* until the promise rejects.
ChannelDelivers(i) ==
    /\ ~streams[i].failed
    /\ Len(streams[i].rcv) + streams[i].term < MaxEvents

\* A stream carries its terminal event: the chunks before it leave room
\* for it.
TokenDelivers(i) ==
    /\ ChannelDelivers(i)
    /\ streams[i].term = 0 => Len(streams[i].rcv) + 1 < MaxEvents

\* The token callback of call i runs (lines 25-28).
OnToken(i, token) ==
    /\ i \in DOMAIN streams
    /\ TokenDelivers(i)
    /\ token = TokenAt(Len(streams[i].rcv) + 1)
    /\ response' = IF AskLive THEN TokenText(streams[i].buf, token)
                              ELSE response
    /\ streams' = [streams EXCEPT ![i].buf = Append(@, token),
                                  ![i].rcv = Append(@, token)]
    /\ UNCHANGED <<query, isStreaming, askMounted>>

\* The final callback of call i runs (lines 29-41).
OnFinal(i, result) ==
    /\ i \in DOMAIN streams
    /\ ChannelDelivers(i)
    /\ isStreaming' = IF AskLive THEN FALSE ELSE isStreaming
    /\ response' = IF AskLive THEN FinalText(result) ELSE response
    /\ streams' = [streams EXCEPT ![i].term = @ + 1]
    /\ UNCHANGED <<query, askMounted>>

\* The transport of call i fails before its terminal event: the promise
\* of askAI rejects.  handleAsk awaits it outside any try (line 22), so
\* the rejection runs no code of the component.
StreamFails(i) ==
    /\ i \in OpenStreams
    /\ streams' = [streams EXCEPT ![i].failed = TRUE]
    /\ UNCHANGED <<query, response, isStreaming, askMounted>>

\* The Ask AI tab is left (App.jsx 163): AskAI has no effect and so no
\* cleanup; the state of the instance is discarded, its calls go on.
AskUnmount ==
    /\ askMounted
    /\ askMounted' = FALSE
    /\ query' = ""
    /\ response' = EmptyStr
    /\ isStreaming' = FALSE
    /\ UNCHANGED streams

(* =============================== App =================================== *)
(* App (src/frontend/src/App.jsx) holds the filter and pagination state,   *)
(* fetches the logs, and refreshes analytics and health every 30 s.        *)
(* LogTable (src/frontend/src/components/LogTable.jsx) holds the filter    *)
(* values of its controls.  An object is a function from its keys.         *)
MaxRequests == 3
MaxPage == 2

\* The tabs of App.jsx 117-121.  The Ask AI tab shows none of the state
\* below and stands with the dashboard tab.
Tabs == {"dashboard", "logs"}

\* How fetch(/health) settles: response.ok true or false, or it throws.
HealthOutcomes == {"ok", "not ok", "threw"}
FirstPage == 1

\* {}
EmptyObj == [k \in {} |-> ""]

\* LogTable.jsx 14-19: the initial value of the filter controls.
TableDefaults ==
    [k \in {"service", "level", "anomaly_threshold", "search"} |->
        IF k = "anomaly_threshold" THEN "0.5" ELSE ""]

\* The changes the user makes to a filter control: (name, value).
FilterChanges == {<<"service", "payment-svc">>, <<"service", "">>}

\* The pages the backend has of all logs, and of those of one service.
ServerPages == 2
ServicePages == 1

\* What getAnalytics resolves with.
AnalyticsData == {[total_logs |-> "42"]}

VARIABLES
    appMounted,             \* App is mounted
    activeTab,              \* useState('dashboard')
    analytics,              \* useState({})
    logs,                   \* useState([])
    total,                  \* useState(0)
    page,                   \* useState(1)
    pages,                  \* useState(1)
    filters,                \* useState({}) of App
    health,                 \* useState(false)
    analyticsIntervalRef,   \* useRef(null)
    refreshTimers,          \* the refresh intervals set and not cleared
    tableFilters,           \* useState({...}) of LogTable: filters
    logFetches,             \* getLogs requests in flight (a bag)
    analyticsFetches,       \* getAnalytics requests in flight
    healthFetches,          \* fetch(/health) requests in flight
    lastOk,                 \* the getLogs request and response that
                            \* resolved last
    onCompleteClosure       \* the onComplete held by the interval callback
                            \* of LogUploader: the filters of the render
                            \* of App it was created in

appVars == <<appMounted, activeTab, analytics, logs, total, page, pages,
             filters, health, analyticsIntervalRef, refreshTimers,
             tableFilters, logFetches, analyticsFetches, healthFetches,
             lastOk, onCompleteClosure>>

\* The merge that leaves the other fields out.
MergeOnlyChanged(f, name, value) == [k \in {name} |-> value]

\* LogTable.jsx 23: { ...filters, [name]: value }
Merge(f, name, value) ==
    [k \in DOMAIN f \cup {name} |-> IF k = name THEN value ELSE f[k]]

\* The request that also carries the total on display.
RequestWithTotal(pageNum, filtersObj) ==
    [k \in {"page", "seen"} \cup DOMAIN filtersObj |->
        IF k \in DOMAIN filtersObj THEN filtersObj[k]
        ELSE IF k = "seen" THEN total ELSE pageNum]

\* App.jsx 35-38: { page: pageNum, ...filtersObj }
Request(pageNum, filtersObj) ==
    [k \in {"page"} \cup DOMAIN filtersObj |->
        IF k \in DOMAIN filtersObj THEN filtersObj[k] ELSE pageNum]

\* The filter fields of a request.
FiltersOf(req) == [k \in DOMAIN req \ {"page"} |-> req[k]]

\* A getLogs in flight: the request, the pageNum of the fetchLogs call
\* that awaits it, and whether handleFilterChange made the call ("filter"),
\* handlePageChange ("page") or another caller ("other").
Fetch(pageNum, filtersObj, by) ==
    [req |-> Request(pageNum, filtersObj), pageNum |-> pageNum, by |-> by]

\* What the log query API answers to a request: the rows (here the request
\* that selected them), their total and the page count.  A page beyond the
\* last one has no logs field.
PagesFor(req) ==
    IF "service" \in DOMAIN req /\ req["service"] # ""
    THEN ServicePages ELSE ServerPages

ServerLogs(req) ==
    [k \in (IF req["page"] <= PagesFor(req) THEN {"logs"} ELSE {})
            \cup {"total", "pages"} |->
        IF k = "logs" THEN <<req>>
        ELSE IF k = "total" THEN 10 * PagesFor(req)
        ELSE PagesFor(req)]

\* response.logs || []
LogsOrEmpty(res) ==
    IF "logs" \in DOMAIN res THEN res["logs"] ELSE <<>>

\* response.total || 0
TotalOrZero(res) ==
    IF "total" \in DOMAIN res /\ res["total"] # 0
    THEN res["total"] ELSE 0

\* response.pages || 1
PagesOrOne(res) ==
    IF "pages" \in DOMAIN res /\ res["pages"] # 0
    THEN res["pages"] ELSE 1

\* The four setters with a staleness guard that keeps the page on display.
ShownKeepsPage(pageNum, res) ==
    [logs |-> LogsOrEmpty(res), total |-> TotalOrZero(res),
     page |-> page, pages |-> PagesOrOne(res)]

\* App.jsx 39-42: what a resolved getLogs puts on display.
Shown(pageNum, res) ==
    [logs |-> LogsOrEmpty(res), total |-> TotalOrZero(res),
     page |-> pageNum, pages |-> PagesOrOne(res)]

NoneOk ==
    [some |-> FALSE, pageNum |-> FirstPage, req |-> EmptyObj, res |-> EmptyObj]

\* No interval callback of LogUploader holds an onComplete yet.
NoClosure == [set |-> FALSE, filters |-> EmptyObj]

\* The state after App has mounted and its mount effect has run
\* (App.jsx 12-20, 59-68): the three initial requests are in flight and the
\* refresh interval is set.
AppInit ==
    /\ appMounted = TRUE
    /\ activeTab = "dashboard"
    /\ analytics = EmptyObj
    /\ logs = <<>>
    /\ total = 0
    /\ page = FirstPage
    /\ pages = 1
    /\ filters = EmptyObj
    /\ health = FALSE
    /\ analyticsIntervalRef = 1
    /\ refreshTimers = {1}
    /\ tableFilters = TableDefaults
    /\ logFetches = SetToBag({Fetch(FirstPage, EmptyObj, "other")})
    /\ analyticsFetches = 1
    /\ healthFetches = 1
    /\ lastOk = NoneOk
    /\ onCompleteClosure = NoClosure

\* The requests of App in flight.
InFlight == BagCardinality(logFetches) + analyticsFetches + healthFetches

\* fetchLogs up to its await (App.jsx 33-38).
fetchLogs(pageNum, filtersObj, by) ==
    logFetches' = logFetches (+) SetToBag({Fetch(pageNum, filtersObj, by)})

\* fetchAnalytics up to its await (App.jsx 23-25).
fetchAnalytics == analyticsFetches' = analyticsFetches + 1

\* checkHealth up to its await (App.jsx 49-51).
checkHealth == healthFetches' = healthFetches + 1

\* App.jsx 84-87: handleFilterChange.
handleFilterChange(newFilters) ==
    /\ InFlight + 1 <= MaxRequests
    /\ filters' = newFilters
    /\ fetchLogs(FirstPage, newFilters, "filter")

\* LogTable.jsx 22-26: handleFilterChange of LogTable, with the
\* onFilterChange of App it calls.
LogTableFilterChange(name, value) ==
    /\ appMounted
    /\ activeTab = "logs"
    /\ tableFilters[name] # value
    /\ tableFilters' = Merge(tableFilters, name, value)
    /\ handleFilterChange(Merge(tableFilters, name, value))
    /\ UNCHANGED <<appMounted, activeTab, analytics, logs, total, page, pages,
                   health, analyticsIntervalRef, refreshTimers,
                   analyticsFetches, healthFetches, lastOk,
                   onCompleteClosure>>

\* handlePageChange with the filters left behind.
handlePageChangeNoFilters(newPage) ==
    /\ appMounted
    /\ activeTab = "logs"
    /\ newPage <= MaxPage
    /\ InFlight + 1 <= MaxRequests
    /\ fetchLogs(newPage, EmptyObj, "page")
    /\ UNCHANGED <<appMounted, activeTab, analytics, logs, total, page, pages,
                   filters, health, analyticsIntervalRef, refreshTimers,
                   tableFilters, analyticsFetches, healthFetches, lastOk,
                   onCompleteClosure>>

\* App.jsx 90-92: handlePageChange.
handlePageChange(newPage) ==
    /\ appMounted
    /\ activeTab = "logs"
    /\ newPage <= MaxPage
    /\ InFlight + 1 <= MaxRequests
    /\ fetchLogs(newPage, filters, "page")
    /\ UNCHANGED <<appMounted, activeTab, analytics, logs, total, page, pages,
                   filters, health, analyticsIntervalRef, refreshTimers,
                   tableFilters, analyticsFetches, healthFetches, lastOk,
                   onCompleteClosure>>

\* Previous without its disabled attribute.
ClickPreviousAlways == handlePageChange(page - 1)

\* LogTable.jsx 170-171: Previous, disabled on page 1.
ClickPrevious == page # 1 /\ handlePageChange(page - 1)

\* LogTable.jsx 180-181: Next, disabled on the last page.
ClickNext == page # pages /\ handlePageChange(page + 1)

\* LogUploader.jsx 18-43 with App.jsx 150: the effect of LogUploader sets
\* its interval when the upload enters Processing, and the interval callback
\* keeps the onComplete of that render, i.e. the handleUploadComplete of
\* the render of App then current, with its filters.
UploaderStartsPolling ==
    /\ appMounted
    /\ activeTab = "logs"
    /\ onCompleteClosure' = [set |-> TRUE, filters |-> filters]
    /\ UNCHANGED <<appMounted, activeTab, analytics, logs, total, page, pages,
                   filters, health, analyticsIntervalRef, refreshTimers,
                   tableFilters, logFetches, analyticsFetches, healthFetches,
                   lastOk>>

\* App.jsx 78-81: handleUploadComplete, the onComplete of LogUploader;
\* fetchLogs(1) takes the filters of the render the callback was created in.
handleUploadComplete ==
    /\ appMounted
    /\ onCompleteClosure.set
    /\ InFlight + 2 <= MaxRequests
    /\ fetchAnalytics
    /\ fetchLogs(FirstPage, onCompleteClosure.filters, "other")
    /\ UNCHANGED <<appMounted, activeTab, analytics, logs, total, page, pages,
                   filters, health, analyticsIntervalRef, refreshTimers,
                   tableFilters, healthFetches, lastOk,
                   onCompleteClosure>>

\* The step settles the getLogs request x.
Settles(x) == BagIn(x, logFetches) /\ logFetches' = logFetches (-) SetToBag({x})

\* getLogs resolved and the rest of fetchLogs runs (App.jsx 39-42).
LogsResolve(x) ==
    LET res == ServerLogs(x.req)
        s == Shown(x.pageNum, res) IN
    /\ BagIn(x, logFetches)
    /\ logFetches' = logFetches (-) SetToBag({x})
    /\ IF appMounted
       THEN /\ logs' = s.logs
            /\ total' = s.total
            /\ page' = s.page
            /\ pages' = s.pages
            /\ lastOk' = [some |-> TRUE, pageNum |-> x.pageNum,
                          req |-> x.req, res |-> res]
       ELSE UNCHANGED <<logs, total, page, pages, lastOk>>
    /\ UNCHANGED <<appMounted, activeTab, analytics, filters, health,
                   analyticsIntervalRef, refreshTimers, tableFilters,
                   analyticsFetches, healthFetches, onCompleteClosure>>

\* The catch that empties the table.
LogsRejectClears(x) ==
    /\ BagIn(x, logFetches)
    /\ logFetches' = logFetches (-) SetToBag({x})
    /\ logs' = <<>>
    /\ total' = 0
    /\ UNCHANGED <<appMounted, activeTab, analytics, page, pages,
                   filters, health, analyticsIntervalRef, refreshTimers,
                   tableFilters, analyticsFetches, healthFetches, lastOk,
                   onCompleteClosure>>

\* getLogs rejected: the catch logs the error (App.jsx 43-45).
LogsReject(x) ==
    /\ BagIn(x, logFetches)
    /\ logFetches' = logFetches (-) SetToBag({x})
    /\ UNCHANGED <<appMounted, activeTab, analytics, logs, total, page, pages,
                   filters, health, analyticsIntervalRef, refreshTimers,
                   tableFilters, analyticsFetches, healthFetches, lastOk,
                   onCompleteClosure>>

\* getAnalytics settled (App.jsx 25-29): the data is set, or the error is
\* logged.
AnalyticsSettle(ok, data) ==
    /\ analyticsFetches > 0
    /\ analyticsFetches' = analyticsFetches - 1
    /\ analytics' = IF ok /\ appMounted THEN data ELSE analytics
    /\ UNCHANGED <<appMounted, activeTab, logs, total, page, pages, filters,
                   health, analyticsIntervalRef, refreshTimers, tableFilters,
                   logFetches, healthFetches, lastOk,
                   onCompleteClosure>>

\* fetch(/health) settled (App.jsx 51-55): response.ok, or false when it
\* threw.
HealthSettle(outcome) ==
    /\ healthFetches > 0
    /\ healthFetches' = healthFetches - 1
    /\ health' = IF ~appMounted THEN health
                 ELSE IF outcome = "threw" THEN FALSE ELSE outcome = "ok"
    /\ UNCHANGED <<appMounted, activeTab, analytics, logs, total, page, pages,
                   filters, analyticsIntervalRef, refreshTimers, tableFilters,
                   logFetches, analyticsFetches, lastOk,
                   onCompleteClosure>>

\* The tick that refreshes the logs as well.
RefreshTickWithLogs(t) ==
    /\ t \in refreshTimers
    /\ InFlight + 3 <= MaxRequests
    /\ fetchAnalytics
    /\ checkHealth
    /\ fetchLogs(FirstPage, EmptyObj, "other")
    /\ filters' = EmptyObj
    /\ UNCHANGED <<appMounted, activeTab, analytics, logs, total, page, pages,
                   health, analyticsIntervalRef, refreshTimers,
                   tableFilters, lastOk,
                   onCompleteClosure>>

\* A tick of the refresh interval (App.jsx 65-68).
RefreshTick(t) ==
    /\ t \in refreshTimers
    /\ InFlight + 2 <= MaxRequests
    /\ fetchAnalytics
    /\ checkHealth
    /\ UNCHANGED <<appMounted, activeTab, analytics, logs, total, page, pages,
                   filters, health, analyticsIntervalRef, refreshTimers,
                   tableFilters, logFetches, lastOk,
                   onCompleteClosure>>

\* A tab button (App.jsx 124): LogTable is rendered on the Logs tab only
\* (148-160), so its filter state starts anew each time the tab is entered.
SetTab(tab) ==
    /\ appMounted
    /\ tab # activeTab
    /\ activeTab' = tab
    /\ tableFilters' = TableDefaults
    /\ UNCHANGED <<appMounted, analytics, logs, total, page, pages, filters,
                   health, analyticsIntervalRef, refreshTimers, logFetches,
                   analyticsFetches, healthFetches, lastOk,
                   onCompleteClosure>>

\* The cleanup that leaves the interval set.
KeepTimers(timers, ref) == timers

\* App.jsx 70-74: the cleanup of the mount effect.
ClearTimers(timers, ref) == IF ref # NoTimer THEN timers \ {ref} ELSE timers

\* App is unmounted: the cleanup runs and the state of the instance is
\* discarded; the requests in flight go on.
AppUnmount ==
    /\ appMounted
    /\ appMounted' = FALSE
    /\ refreshTimers' = ClearTimers(refreshTimers, analyticsIntervalRef)
    /\ analyticsIntervalRef' = NoTimer
    /\ activeTab' = "dashboard"
    /\ analytics' = EmptyObj
    /\ logs' = <<>>
    /\ total' = 0
    /\ page' = FirstPage
    /\ pages' = 1
    /\ filters' = EmptyObj
    /\ health' = FALSE
    /\ tableFilters' = TableDefaults
    /\ lastOk' = NoneOk
    /\ onCompleteClosure' = NoClosure
    /\ UNCHANGED <<logFetches, analyticsFetches, healthFetches>>

(* ------------------------- the specifications ------------------------- *)
vars == <<upVars, askVars, appVars>>

Init == UpInit /\ AskInit /\ AppInit

\* The LogUploader of the Logs tab with its backend.
UploaderNext ==
    \/ handleFileSelect /\ UNCHANGED <<askVars, appVars>>
    \/ handleDrop /\ UNCHANGED <<askVars, appVars>>
    \/ handleUpload /\ UNCHANGED <<askVars, appVars>>
    \/ \E u \in BagToSet(uploads), pc \in Percents :
          UploadProgress(u, pc) /\ UNCHANGED <<askVars, appVars>>
    \/ \E u \in BagToSet(uploads) : UploadResolve(u) /\ UNCHANGED <<askVars, appVars>>
    \/ \E u \in BagToSet(uploads), m \in UploadErrors :
          UploadReject(u, m) /\ UNCHANGED <<askVars, appVars>>
    \/ \E j \in DOMAIN jobs : ServerStep(j) /\ UNCHANGED <<askVars, appVars>>
    \/ \E t \in armed : Tick(t) /\ UNCHANGED <<askVars, appVars>>
    \/ \E p \in BagToSet(polls) : \E r \in Responses(p.job) :
          DeliverPoll(p, r) /\ UNCHANGED <<askVars, appVars>>
    \/ ParentRender /\ UNCHANGED <<askVars, appVars>>
    \/ Unmount /\ UNCHANGED <<askVars, appVars>>

SpecUploader == Init /\ [][UploaderNext]_vars

\* The AskAI of the Ask AI tab with its stream.
AskNext ==
    \/ \E q \in Queries : SetQuery(q) /\ UNCHANGED <<upVars, appVars>>
    \/ handleAsk /\ UNCHANGED <<upVars, appVars>>
    \/ handleClear /\ UNCHANGED <<upVars, appVars>>
    \/ \E i \in DOMAIN streams :
          OnToken(i, TokenAt(Len(streams[i].rcv) + 1)) /\ UNCHANGED <<upVars, appVars>>
    \/ \E i \in DOMAIN streams, result \in Payloads :
          OnFinal(i, result) /\ UNCHANGED <<upVars, appVars>>
    \/ \E i \in DOMAIN streams : StreamFails(i) /\ UNCHANGED <<upVars, appVars>>
    \/ AskUnmount /\ UNCHANGED <<upVars, appVars>>

SpecAskAI == Init /\ [][AskNext]_vars

\* The analysis service ends every stream it has opened: as long as the
\* channel of call i can hand over a terminal event, it does so in the end.
FinalArrives(i) ==
    \E result \in Payloads : OnFinal(i, result) /\ UNCHANGED <<upVars, appVars>>

SpecAskAIFair ==
    /\ Init
    /\ [][AskNext]_vars
    /\ \A i \in 1..MaxStreams : WF_vars(FinalArrives(i))

\* The Logs tab and then the Ask AI tab (App.jsx 148-163 renders LogUploader
\* on the one and AskAI on the other, never both): the LogUploader with its
\* backend, and once it is unmounted one question asked of AskAI and the
\* terminal event its stream delivers, while the requests the uploader
\* left in flight still settle.
TabsNext ==
    \/ UploaderNext
    \/ /\ ~mounted
       /\ streams = <<>>
       /\ \E q \in Queries : SetQuery(q) /\ UNCHANGED <<upVars, appVars>>
    \/ /\ ~mounted
       /\ streams = <<>>
       /\ handleAsk /\ UNCHANGED <<upVars, appVars>>
    \/ /\ ~mounted
       /\ \E i \in OpenStreams, result \in Payloads :
             OnFinal(i, result) /\ UNCHANGED <<upVars, appVars>>

SpecTabs == Init /\ [][TabsNext]_vars

\* App with the LogTable of its Logs tab and the backend.
AppNext ==
    \/ \E c \in FilterChanges :
          LogTableFilterChange(c[1], c[2]) /\ UNCHANGED <<upVars, askVars>>
    \/ ClickPrevious /\ UNCHANGED <<upVars, askVars>>
    \/ ClickNext /\ UNCHANGED <<upVars, askVars>>
    \/ UploaderStartsPolling /\ UNCHANGED <<upVars, askVars>>
    \/ handleUploadComplete /\ UNCHANGED <<upVars, askVars>>
    \/ \E x \in BagToSet(logFetches) :
          LogsResolve(x) /\ UNCHANGED <<upVars, askVars>>
    \/ \E x \in BagToSet(logFetches) :
          LogsReject(x) /\ UNCHANGED <<upVars, askVars>>
    \/ \E ok \in BOOLEAN, data \in AnalyticsData :
          AnalyticsSettle(ok, data) /\ UNCHANGED <<upVars, askVars>>
    \/ \E outcome \in HealthOutcomes :
          HealthSettle(outcome) /\ UNCHANGED <<upVars, askVars>>
    \/ \E t \in refreshTimers : RefreshTick(t) /\ UNCHANGED <<upVars, askVars>>
    \/ \E tab \in Tabs : SetTab(tab) /\ UNCHANGED <<upVars, askVars>>
    \/ AppUnmount /\ UNCHANGED <<upVars, askVars>>

SpecApp == Init /\ [][AppNext]_vars

(* ======================= LogUploader: the claims ======================= *)
Terminal == {"Completed", "Failed"}

Rank(st) == CASE st = "Queued" -> 0
              [] st = "Uploading" -> 1
              [] st = "Processing" -> 2
              [] OTHER -> 3

\* The step delivers the response of the getJob request p.
Delivers(p) == BagIn(p, polls) /\ polls' = polls (-) SetToBag({p})

\* The poll loop that issued p has been retired: the component is torn down,
\* or a file selection, a drop or a new upload has replaced the job.
Retired(p) == ~mounted \/ p.job # jobId

\* C1: for a job that ends completed, under every interleaving of ticks and
\* getJob responses, onComplete is invoked at most once for the job, and
\* once Completed is on display no interval is armed to issue a getJob.
C1_CompleteOnceThenStop ==
    /\ \A j \in DOMAIN jobs : completeCalls[j] <= 1
    /\ status = "Completed" => armed = {}

\* C2: for a job that ends failed, its failure is put on display at most
\* once, onComplete is never invoked for it, and polling has stopped while
\* Failed is on display.
C2_FailOnceThenStop ==
    /\ \A j \in DOMAIN jobs : failEmits[j] <= 1
    /\ \A j \in DOMAIN jobs : jobs[j].status = "failed" => completeCalls[j] = 0
    /\ status = "Failed" => armed = {}

\* C3: the response of a getJob whose poll loop has been retired changes
\* neither status, progress nor displayText, and does not invoke onComplete.
C3_NoRetiredCallback ==
    [][\A p \in BagToSet(polls) :
          (Retired(p) /\ Delivers(p)) =>
              UNCHANGED <<status, progress, displayText, completeCalls>>]_vars

\* C4: at most one polling interval is armed, and it is the one the ref
\* holds: each effect re-run clears the previous interval before it sets
\* a new one.
C4_OneInterval ==
    /\ Cardinality(armed) <= 1
    /\ \A t \in armed : t.id = intervalRef

\* An interval is armed under the second handle: the effect has re-run,
\* cleared the interval it had set and set a new one.
C4_Witness ==
    /\ status = "Processing"
    /\ \E t \in armed : t.id = 2 /\ t.job = jobId

\* C5: when a getJob fails in transport, the callback changes nothing:
\* status, jobId, progress and displayText stay, and the interval stays
\* armed, so that its next tick polls again.
C5_TransportErrorKeepsPolling ==
    [][\A p \in BagToSet(polls) :
          (Delivers(p) /\ lastBranch' = "catch") =>
              UNCHANGED <<status, jobId, progress, displayText, intervalRef,
                          armed>>]_vars

\* A transport error has been swallowed, the job is still Processing with
\* its interval armed, and a further getJob is in flight.
C5_Witness ==
    /\ lastBranch = "catch"
    /\ status = "Processing"
    /\ armed # {}
    /\ BagCardinality(polls) > 0

\* C6: within one job (a file selection or a drop, which set Queued, start
\* the next one) the status never moves backwards along
\* Queued -> Uploading -> Processing -> {Completed | Failed}, and Completed
\* and Failed are never left.
C6_StatusMonotonic ==
    [][status' # "Queued" =>
          /\ Rank(status') >= Rank(status)
          /\ status \in Terminal => status' = status]_vars

\* C7: a response with status processing, delivered to the poll loop of
\* the job on display, puts that response's processed_count on display as
\* progress; a completed one reports its processed_count.
C7_ProgressPerTick ==
    [][\A p \in BagToSet(polls) :
          (Delivers(p) /\ ~Retired(p) /\ status = "Processing") =>
              /\ (lastBranch' = "none" /\ jobs[p.job].status = "processing") =>
                    \/ progress' = jobs[p.job].processed_count
                    \/ displayText'.n = jobs[p.job].processed_count
              /\ lastBranch' = "completed" =>
                    displayText' = DoneText(jobs[p.job])]_vars

(* ========================== AskAI: the claims ========================== *)
\* The step runs a callback of call i.
Runs(i) ==
    /\ i \in DOMAIN streams
    /\ \/ streams'[i].rcv # streams[i].rcv
       \/ streams'[i].term # streams[i].term

\* The step runs the token callback of call i.
RunsToken(i) == Runs(i) /\ Len(streams'[i].rcv) = Len(streams[i].rcv) + 1

\* The final callback is handed an error event.
IsErrorEvent(result) == result.type = "object" /\ result.o.error # ""

\* The payload can be read as structured data, and the value it carries.
Structured(result) == result.type = "object" \/ result.text.tag = "json"
ValueOf(result) == IF result.type = "object" THEN result.o ELSE result.text.o

\* C8: each token chunk a mounted AskAI receives before the terminal event
\* is followed by one update of the displayed response, to the
\* concatenation of all the chunks received so far in the order of
\* receipt; the buffer holds every chunk once, in that order.
C8_PartialIsConcatenation ==
    [][\A i \in DOMAIN streams :
          (RunsToken(i) /\ streams[i].term = 0 /\ askMounted) =>
              /\ response' = Plain(Join(streams'[i].rcv))
              /\ streams'[i].buf = streams'[i].rcv]_vars

\* Two chunks have been received, no terminal event yet, and the display
\* shows their concatenation.
C8_Witness ==
    \E i \in DOMAIN streams :
        /\ isStreaming
        /\ streams[i].term = 0
        /\ streams[i].rcv = <<TokenAt(1), TokenAt(2)>>
        /\ response = Plain(TokenAt(1) \o TokenAt(2))

\* What C9 says of a final result in either form, but for the empty case.
FinalEmitted(result) ==
    /\ ~isStreaming'
    /\ Structured(result) =>
          /\ parseResponse(response').ok
          /\ parseResponse(response').o = ValueOf(result)
    /\ ~Structured(result) =>
          /\ response' = result.text
          /\ ~parseResponse(response').ok
          /\ response'.tag # "error"

C10_NothingAfterTerminal ==
    [][\A i \in DOMAIN streams :
          (Runs(i) /\ streams[i].term >= 1) =>
              UNCHANGED <<response, isStreaming>>]_vars

\* C11: Clear pressed while a call is open ends the query at once
\* (isStreaming becomes false), and from then on no token or terminal
\* callback of that call changes the displayed response.
C11_ClearSuppresses ==
    [][/\ (handleClear /\ OpenStreams # {}) => ~isStreaming'
       /\ \A i \in DOMAIN streams :
             (Runs(i) /\ streams[i].cut) => UNCHANGED response]_vars

\* C12: a new call begins only when every earlier call has ended or has
\* been cancelled, and once a later call has begun no callback of an
\* earlier one changes the response.
C12_OneStreamNoInterleave ==
    [][/\ Len(streams') > Len(streams) =>
             \A i \in DOMAIN streams :
                 streams[i].term >= 1 \/ streams[i].cut \/ streams[i].failed
       /\ \A i \in DOMAIN streams :
             (Runs(i) /\ i < Len(streams)) => UNCHANGED response]_vars

\* C13: an error event ends the query with isStreaming false and the error
\* text on display, and every query that is streaming stops streaming in
\* the end, also when the transport of its stream has failed.
C13_StreamingEnds ==
    /\ [][\A i \in DOMAIN streams : \A result \in Payloads :
             (OnFinal(i, result) /\ IsErrorEvent(result) /\ askMounted) =>
                 /\ ~isStreaming'
                 /\ response' = ErrorMsg(result.o.error)]_vars
    /\ (isStreaming ~> ~isStreaming)

\* C20: once LogUploader is unmounted no interval is armed and no getJob
\* is issued; once AskAI is unmounted no token or terminal callback of
\* its calls runs any more.
C20_TeardownCancels ==
    [][/\ ~mounted =>
             /\ armed = {}
             /\ BagCardinality(polls') <= BagCardinality(polls)
       /\ ~askMounted => \A i \in DOMAIN streams : ~Runs(i)]_vars

(* =========================== App: the claims =========================== *)
\* The step issues the getLogs request x, and no other.
Issues(x) == logFetches' = logFetches (+) SetToBag({x})

\* The request x carries page n and exactly the filter fields of f.
Carries(x, n, f) ==
    /\ x.req["page"] = n
    /\ DOMAIN x.req = {"page"} \cup DOMAIN f
    /\ \A k \in DOMAIN f : x.req[k] = f[k]

\* What C14 says of the step that changes a filter control.
FilterApplied(name, value) ==
    /\ DOMAIN filters' = DOMAIN TableDefaults
    /\ \A k \in DOMAIN TableDefaults :
          filters'[k] = IF k = name THEN value ELSE tableFilters[k]
    /\ \E x \in BagToSet(logFetches') :
          Issues(x) /\ Carries(x, FirstPage, filters')

\* C14: a change of a filter control replaces the filters of App by the
\* change merged over the values of the controls and issues one getLogs
\* with page 1 and every filter field; and when that request has settled,
\* resolved or rejected, the page on display is 1.
C14_ApplyFilter ==
    [][/\ \A c \in FilterChanges :
             LogTableFilterChange(c[1], c[2]) => FilterApplied(c[1], c[2])
       /\ \A x \in BagToSet(logFetches) :
             (Settles(x) /\ x.by = "filter" /\ appMounted) =>
                 page' = FirstPage]_vars

\* C15: handlePageChange(n) issues one getLogs, with page n and exactly
\* the filters of App, and leaves the filters of App as they are.
C15_ChangePage ==
    [][\A n \in 1..MaxPage :
          handlePageChange(n) =>
              /\ filters' = filters
              /\ \E x \in BagToSet(logFetches') :
                    Issues(x) /\ Carries(x, n, filters)]_vars

\* A getLogs for page 2 of the logs of payment-svc is in flight: a page
\* change made after a filter change.
C15_Witness ==
    \E x \in BagToSet(logFetches) :
        /\ x.by = "page"
        /\ x.req["page"] = 2
        /\ "service" \in DOMAIN x.req
        /\ x.req["service"] = "payment-svc"
        /\ filters = FiltersOf(x.req)

\* C16: a tick of the refresh interval, and the settling of a getAnalytics
\* or of a health request, leave the filters, the logs on display with
\* their total, page and page count, and the getLogs in flight as they are.
C16_RefreshFrame ==
    [][(\/ \E t \in refreshTimers : RefreshTick(t)
        \/ \E ok \in BOOLEAN, data \in AnalyticsData : AnalyticsSettle(ok, data)
        \/ \E outcome \in HealthOutcomes : HealthSettle(outcome)) =>
          UNCHANGED <<filters, tableFilters, logs, total, page, pages,
                      logFetches>>]_vars

\* The requests of the mount have settled and those of a refresh tick are
\* in flight, while page 2 of the logs of a filter is on display.
C16_Witness ==
    /\ analytics # EmptyObj
    /\ health
    /\ analyticsFetches = 1
    /\ healthFetches = 1
    /\ page = 2
    /\ filters # EmptyObj

\* C17: while App is mounted exactly one refresh interval is set, the one
\* the ref holds; once App is unmounted none is set, so no tick fires.
C17_OneRefreshTimer ==
    /\ appMounted =>
          Cardinality(refreshTimers) = 1 /\ refreshTimers = {analyticsIntervalRef}
    /\ ~appMounted => refreshTimers = {}

\* App has been unmounted with requests still in flight, after the user
\* had made it issue requests of its own.
C17_Witness ==
    /\ ~appMounted
    /\ refreshTimers = {}
    /\ \E x \in BagToSet(logFetches) : x.by = "filter"

C19_LastWriteWins ==
    appMounted =>
        /\ lastOk.some =>
              /\ logs = LogsOrEmpty(lastOk.res)
              /\ total = TotalOrZero(lastOk.res)
              /\ pages = PagesOrOne(lastOk.res)
              /\ page = lastOk.pageNum
        /\ ~lastOk.some =>
              logs = <<>> /\ total = 0 /\ pages = 1 /\ page = FirstPage

\* The response on display is that of a request made before the last
\* filter change: page 2 of all logs, while the filters name a service and
\* nothing is in flight.
C19_Witness ==
    /\ lastOk.some
    /\ page = 2
    /\ logs # <<>>
    /\ "service" \notin DOMAIN logs[1]
    /\ "service" \in DOMAIN filters
    /\ filters["service"] = "payment-svc"
    /\ InFlight = 0

(* =================== LogUploader: further claims ====================== *)
\* C23: an interval is armed only while status is Processing with a job
\* id, it polls that job, and so every getJob a tick issues carries the
\* jobId on display.
C23_IntervalOnlyProcessing ==
    /\ armed # {} => (status = "Processing" /\ jobId # NoJob)
    /\ \A t \in armed : t.job = jobId
    /\ status \in {"Queued", "Uploading", "Completed", "Failed"} => armed = {}

\* The interval of the job on display is armed and a getJob it has issued
\* for that job is in flight.
C23_Witness ==
    /\ status = "Processing"
    /\ \E t \in armed : t.job = jobId
    /\ BagIn(Poll(jobId), polls)

\* C24: at most one uploadLog request is in flight.
C24_OneUpload == BagCardinality(uploads) <= 1

\* The step settles an uploadLog request or runs its progress callback.
UploadActs ==
    \E u \in BagToSet(uploads) :
        \/ UploadResolve(u)
        \/ \E m \in UploadErrors : UploadReject(u, m)
        \/ \E pc \in Percents : UploadProgress(u, pc)

\* C25: while the tracker is in the reset state of a new file (Queued, no
\* job id, progress 0, empty text), no completion and no progress callback
\* of an uploadLog changes status, jobId, progress or displayText.
C25_ResetStaysReset ==
    [][(/\ UploadActs
        /\ mounted
        /\ status = "Queued"
        /\ jobId = NoJob
        /\ progress = 0
        /\ displayText = EmptyText) =>
          UNCHANGED <<status, jobId, progress, displayText>>]_vars

\* C29: the rejection of an uploadLog finds the tracker Uploading and
\* leaves it Failed with the text "Upload failed: <message>", without a
\* job id, without an interval, and without a call of onComplete.
C29_UploadFailure ==
    [][\A u \in BagToSet(uploads) : \A m \in UploadErrors :
          (UploadReject(u, m) /\ mounted) =>
              /\ status = "Uploading"
              /\ status' = "Failed"
              /\ displayText' = UploadFailedText(m)
              /\ jobId' = NoJob
              /\ armed' = {}
              /\ completeCalls' = completeCalls]_vars

(* ======================= App: further claims ========================== *)
\* C22: the page on display is at least 1, and no getLogs is issued with a
\* page below 1 (a request in flight was issued with the page it carries).
C22_PageAtLeastOne ==
    /\ page >= 1
    /\ \A x \in BagToSet(logFetches) : x.req["page"] >= 1 /\ x.pageNum >= 1

\* Page 2 is on display and a getLogs for page 1, issued by Previous, is
\* in flight.
C22_Witness ==
    /\ page = 2
    /\ \E x \in BagToSet(logFetches) : x.by = "page" /\ x.req["page"] = 1

\* C26: when no getLogs is in flight, the logs, total, page and page count
\* on display are those of a request made with the filters App now holds.
C26_ShownWithCurrentFilters ==
    (appMounted /\ BagCardinality(logFetches) = 0 /\ lastOk.some) =>
        FiltersOf(lastOk.req) = filters

\* C27: whenever LogTable is on display its controls show the filters of
\* App, and every getLogs issued while it is on display carries exactly the
\* values the controls show.
C27_ControlsAreFilterState ==
    [][/\ (appMounted' /\ activeTab' = "logs") => tableFilters' = filters'
       /\ \A x \in BagToSet(logFetches') :
             (Issues(x) /\ appMounted' /\ activeTab' = "logs") =>
                 FiltersOf(x.req) = tableFilters']_vars

\* C28: a rejected getLogs leaves the logs, total, page and page count on
\* display as they are and a failed getAnalytics leaves the analytics as
\* they are; while App is mounted only a resolved getLogs changes the
\* former (to what it answered) and only a resolved getAnalytics the latter.
C28_FailureKeepsDisplay ==
    [][/\ \A x \in BagToSet(logFetches) :
             LogsReject(x) => UNCHANGED <<logs, total, page, pages>>
       /\ \A data \in AnalyticsData :
             AnalyticsSettle(FALSE, data) => UNCHANGED analytics
       /\ (appMounted' /\ <<logs, total, page, pages>>' # <<logs, total, page, pages>>) =>
             \E x \in BagToSet(logFetches) :
                 /\ Settles(x)
                 /\ <<logs', total', page', pages'>> =
                        <<LogsOrEmpty(ServerLogs(x.req)),
                          TotalOrZero(ServerLogs(x.req)),
                          x.pageNum,
                          PagesOrOne(ServerLogs(x.req))>>
       /\ (appMounted' /\ analytics' # analytics) =>
             /\ analyticsFetches' = analyticsFetches - 1
             /\ analytics' \in AnalyticsData]_vars

\* The initial getLogs and the initial getAnalytics have both failed:
\* nothing is in flight, no getLogs has resolved, and the logs, total,
\* page, page count and analytics are the initial ones.
C28_Witness ==
    /\ appMounted
    /\ BagCardinality(logFetches) = 0
    /\ analyticsFetches = 0
    /\ ~lastOk.some
    /\ <<logs, total, page, pages>> = <<<<>>, 0, FirstPage, 1>>
    /\ analytics = EmptyObj

====
